---- MODULE Spec2Model ----
(***************************************************************************)
(* The coregionalization kernel of GPy/kern/_src/coregionalize.py.         *)
(*                                                                         *)
(* Arrays are flat functions over 0..(size-1) in C (row-major) order, as   *)
(* numpy lays them out and as the inlined C loops address them: a matrix   *)
(* of shape (r, c) holds entry [i, j] at offset i*c + j.  An index array   *)
(* X of shape (n, 1) is a function over 0..(n-1).  Reals are integers      *)
(* here, so every identity below is one of exact arithmetic: kappa and B   *)
(* are counted in halves and W in units of 1/sqrt(2), which keeps          *)
(* B = W.W^T + diag(kappa) and makes the default kappa of 0.5 the number   *)
(* 1.  Floating-point rounding is not modelled.                            *)
(***************************************************************************)
EXTENDS Integers, FiniteSets, Sequences, TLC

\* Longest index vector X, X2 of a call.
MaxN == 2
\* Largest number of output channels of a constructed kernel.
MaxDim == 2
\* Largest number of columns of W of a constructed kernel.
MaxRank == 2

\* Entries of W an optimiser step or the random initialisation may produce.
WVals == {-1, 2}
\* Entries of kappa (kept positive by the Logexp transform).
KappaVals == {1, 3}

VARIABLES
    alive,       \* a kernel object exists (construction completed)
    output_dim,  \* self.output_dim
    rank,        \* self.rank
    W,           \* self.W, shape (output_dim, rank)
    kappa,       \* self.kappa, shape (output_dim,)
    B,           \* self.B, shape (output_dim, output_dim); NoB before the first parameters_changed
    Wgrad,       \* self.W.gradient
    kgrad,       \* self.kappa.gradient
    working,     \* config ('weave', 'working'): process-wide
    diagView,    \* whether the numpy in use returns a view from np.diag (1.9 and later) or a copy
    warned,      \* the constructor printed its rank warning
    snapW,       \* history: W at the most recent parameters_changed
    snapKappa,   \* history: kappa at the most recent parameters_changed
    ret          \* the most recent call: its arguments and how it ended

vars == <<alive, output_dim, rank, W, kappa, B, Wgrad, kgrad, working, diagView,
          warned, snapW, snapKappa, ret>>

----------------------------------------------------------------------------
\* Arrays

\* The attribute self.B does not exist yet.
NoB == <<>>

Empty == <<>>

\* index.size
Size(X) == Cardinality(DOMAIN X)

RECURSIVE SumOver(_, _)
\* The sum of f[x] over the x of the finite set S.
SumOver(f, S) ==
    IF S = {} THEN 0
    ELSE LET x == CHOOSE y \in S : TRUE IN f[x] + SumOver(f, S \ {x})

\* All index vectors of length 1..n over the values V.
IndexVectors(V, n) == UNION {[0..(m - 1) -> V] : m \in 1..n}

\* The index vectors of one observation.
Single(V) == [{0} -> V]

\* Every entry of X is an output channel.
ValidIndex(X, od) == \A i \in DOMAIN X : X[i] \in 0..(od - 1)

\* numpy's fancy indexing of an axis of length dim: a negative index counts from the
\* end, and an index outside [-dim, dim) raises IndexError.
NumpyInBounds(v, dim) == v >= -dim /\ v < dim

NumpyIdx(v, dim) == IF v < 0 THEN v + dim ELSE v

----------------------------------------------------------------------------
\* parameters_changed

\* np.dot(self.W, self.W.T) + np.diag(self.kappa)
ComputeB(w, k, od, rk) ==
    [f \in 0..(od * od - 1) |->
        LET a == f \div od
            b == f % od
        IN SumOver([c \in 0..(rk - 1) |-> w[a * rk + c] * w[b * rk + c]], 0..(rk - 1))
           + (IF a = b THEN k[a] ELSE 0)]

----------------------------------------------------------------------------
\* K

\* self.B[index, index2.T] raises IndexError.
KNumpyRaises(X, X2, od) ==
    \/ \E i \in DOMAIN X : ~NumpyInBounds(X[i], od)
    \/ \E j \in DOMAIN X2 : ~NumpyInBounds(X2[j], od)

\* self.B[index, index2.T]: index of shape (n1, 1) against index2.T of shape (1, n2)
\* broadcasts to the (n1, n2) gather of B.
Gather(b, X, X2, od) ==
    LET n2 == Size(X2)
    IN [f \in 0..(Size(X) * n2 - 1) |->
            b[NumpyIdx(X[f \div n2], od) * od + NumpyIdx(X2[f % n2], od)]]

\* _K_numpy: with X2 omitted the column selector is index.T.
K_numpy(b, X, hasX2, X2, od) ==
    IF hasX2 THEN Gather(b, X, X2, od) ELSE Gather(b, X, X, od)

\* WeaveOffset with the mirrored half of target left as the diagonal wrote it.
WeaveOffset_noMirror(X, hasX2, X2, od, row, col) ==
    IF hasX2 THEN od * X[row] + X2[col]
    ELSE IF col <= row THEN X[row] + od * X[col]
    ELSE X[row] + od * X[row]

\* The offset into B's buffer that the inlined loops read for target[row, col].
WeaveOffset(X, hasX2, X2, od, row, col) ==
    IF hasX2
    THEN \* target[i + j*num_inducing] = B[output_dim*index[j] + index2[i]], j the row
         od * X[row] + X2[col]
    ELSE IF row = col
    THEN \* target[i + i*N] = B[index[i] + output_dim*index[i]]
         X[row] + od * X[row]
    ELSE IF col < row
    THEN \* target[j + i*N] = B[index[i] + output_dim*index[j]], i the row, j < i
         X[row] + od * X[col]
    ELSE \* target[i + j*N] = target[j + i*N], j the row, i the column, j < i
         X[col] + od * X[row]

\* The loops of _K_weave read outside B's buffer: undefined behaviour.
K_weaveOutOfBuffer(X, hasX2, X2, od) ==
    LET n2 == IF hasX2 THEN Size(X2) ELSE Size(X)
    IN \E row \in 0..(Size(X) - 1), col \in 0..(n2 - 1) :
           WeaveOffset(X, hasX2, X2, od, row, col) \notin 0..(od * od - 1)

\* _K_weave: target as the loops fill it; a read outside the buffer yields g.
K_weave(b, X, hasX2, X2, od, g) ==
    LET n2 == IF hasX2 THEN Size(X2) ELSE Size(X)
    IN [f \in 0..(Size(X) * n2 - 1) |->
            LET off == WeaveOffset(X, hasX2, X2, od, f \div n2, f % n2)
            IN IF off \in 0..(od * od - 1) THEN b[off] ELSE g]

\* Kdiag: np.diag(self.B)[index.flatten()]
KdiagRaises(X, od) == \E i \in DOMAIN X : ~NumpyInBounds(X[i], od)

\* KdiagValue reading the first row of B instead of its diagonal.
KdiagValue_firstRow(b, X, od) == [i \in DOMAIN X |-> b[NumpyIdx(X[i], od)]]

KdiagValue(b, X, od) ==
    [i \in DOMAIN X |-> LET a == NumpyIdx(X[i], od) IN b[a * od + a]]

----------------------------------------------------------------------------
\* Gradients

\* ReduceOffset with the roles of index and index2 exchanged.
ReduceOffset_exchanged(index, index2, od, i, j) == index2[i] + od * index[j]

\* _gradient_reduce_weave: the offset of dL_dK_small that pass (i, j) of the loops
\* adds to, i over index2 and j over index.
ReduceOffset(index, index2, od, i, j) == index[j] + od * index2[i]

\* The loops of _gradient_reduce_weave write outside dL_dK_small: undefined behaviour.
ReduceOutOfBuffer(index, index2, od) ==
    \E i \in DOMAIN index2, j \in DOMAIN index :
        ReduceOffset(index, index2, od, i, j) \notin 0..(od * od - 1)

\* _gradient_reduce_weave: dL_dK_small[index[j] + output_dim*index2[i]] +=
\* dL_dK[i + j*num_inducing] for every i < num_inducing, j < N.
GradientReduceWeave(dL_dK, index, index2, od) ==
    LET num_inducing == Size(index2)
        passes == (DOMAIN index2) \X (DOMAIN index)
    IN [f \in 0..(od * od - 1) |->
            SumOver([p \in passes |-> dL_dK[p[1] + p[2] * num_inducing]],
                    {p \in passes : ReduceOffset(index, index2, od, p[1], p[2]) = f})]

\* _gradient_reduce_numpy: dL_dK_small[j, i] = dL_dK[index == i][:, index2 == j].sum()
GradientReduceNumpy(dL_dK, index, index2, od) ==
    LET n2 == Size(index2)
        cells == (DOMAIN index) \X (DOMAIN index2)
    IN [f \in 0..(od * od - 1) |->
            LET j == f \div od
                i == f % od
            IN SumOver([c \in cells |-> dL_dK[c[1] * n2 + c[2]]],
                       {c \in cells : index[c[1]] = i /\ index2[c[2]] = j})]

\* np.diag(dL_dK_small)
DiagOf(m, od) == [a \in 0..(od - 1) |-> m[a * od + a]]

\* dL_dK_small += dL_dK_small.T
Symmetrize(m, od) == [f \in 0..(od * od - 1) |-> m[f] + m[(f % od) * od + (f \div od)]]

\* dkappa as it is read at line 139: np.diag gave a view of dL_dK_small, which the
\* in-place += then changed, or a copy taken before it.
Dkappa(small, od, view) ==
    IF view THEN DiagOf(Symmetrize(small, od), od) ELSE DiagOf(small, od)

\* (self.W[:, None, :]*dL_dK_small[:, :, None]).sum(0): entry [r, k] sums
\* W[c, k]*dL_dK_small[c, r] over c.
DW(w, m, od, rk) ==
    [f \in 0..(od * rk - 1) |->
        LET r == f \div rk
            k == f % rk
        IN SumOver([c \in 0..(od - 1) |-> w[c * rk + k] * m[c * od + r]], 0..(od - 1))]

\* update_gradients_diag: dL_dKdiag[index == i].sum() for every i
DiagSmall(dL_dKdiag, index, od) ==
    [a \in 0..(od - 1) |->
        SumOver(dL_dKdiag, {i \in DOMAIN index : index[i] = a})]

\* DWdiag without the factor 2.
DWdiag_single(w, s, od, rk) == [f \in 0..(od * rk - 1) |-> w[f] * s[f \div rk]]

\* 2.*self.W*dL_dKdiag_small[:, None]
DWdiag(w, s, od, rk) ==
    [f \in 0..(od * rk - 1) |-> 2 * w[f] * s[f \div rk]]

----------------------------------------------------------------------------
\* Calls and how they end

\* What a read outside a buffer may find there.
GarbageVals == {0, 7}

\* Upstream gradients handed to the gradient methods, as flat arrays of a size: distinct
\* powers of two, so that every subset of the entries has a sum of its own.
Upstream(size) == {[f \in 0..(size - 1) |-> 2 ^ f]}

NoCall == [op |-> "none", X |-> Empty, hasX2 |-> FALSE, X2 |-> Empty, dL |-> Empty,
           outcome |-> "ok", val |-> Empty, failed |-> FALSE, used |-> {}]

Call(op, X, hasX2, X2, dL, end) ==
    [op |-> op, X |-> X, hasX2 |-> hasX2, X2 |-> X2, dL |-> dL,
     outcome |-> end.outcome, val |-> end.val, failed |-> end.failed, used |-> end.used]

End(outcome, val, failed, used) ==
    [outcome |-> outcome, val |-> val, failed |-> failed, used |-> used]

\* The column selector of a call: X2, or X when X2 is omitted.
Index2(X, hasX2, X2) == IF hasX2 THEN X2 ELSE X

\* _K_numpy as K runs it: self.B must exist and the gather must be in bounds.
KNumpyEnd(b, X, hasX2, X2, od, failed, used) ==
    IF b = NoB THEN End("AttributeError", Empty, failed, used)
    ELSE IF KNumpyRaises(X, Index2(X, hasX2, X2), od)
    THEN End("IndexError", Empty, failed, used)
    ELSE End("ok", K_numpy(b, X, hasX2, X2, od), failed, used)

\* K: how the call ends, given the flag wk on entry, whether weave.inline raises
\* (fail), and what a read outside B's buffer does (crash, or the value g).
KEnd(b, X, hasX2, X2, od, wk, fail, crash, g) ==
    IF ~wk THEN KNumpyEnd(b, X, hasX2, X2, od, FALSE, {"numpy"})
    ELSE IF b = NoB \/ fail
    THEN \* the bare except: log, clear the flag, fall back
         KNumpyEnd(b, X, hasX2, X2, od, TRUE, {"weave", "numpy"})
    ELSE IF K_weaveOutOfBuffer(X, hasX2, X2, od) /\ crash
    THEN End("Segfault", Empty, FALSE, {"weave"})
    ELSE End("ok", K_weave(b, X, hasX2, X2, od, g), FALSE, {"weave"})

\* _gradient_reduce_weave as update_gradients_full runs it.
ReduceWeaveEnd(b, dL_dK, index, index2, od, fail, crash, failed) ==
    IF b = NoB THEN End("AttributeError", Empty, failed, {"weave"})
    ELSE IF fail THEN End("WeaveError", Empty, failed, {"weave"})
    ELSE IF ReduceOutOfBuffer(index, index2, od) /\ crash
    THEN End("Segfault", Empty, failed, {"weave"})
    ELSE End("ok", GradientReduceWeave(dL_dK, index, index2, od), failed, {"weave"})

\* Lines 122-130 of update_gradients_full: dL_dK_small, or the error that leaves the
\* method.  The except branch runs _gradient_reduce_weave a second time (fail2).
ReduceEnd(b, dL_dK, index, index2, od, wk, fail1, fail2, crash) ==
    IF ~wk
    THEN IF b = NoB THEN End("AttributeError", Empty, FALSE, {"numpy"})
         ELSE End("ok", GradientReduceNumpy(dL_dK, index, index2, od), FALSE, {"numpy"})
    ELSE IF b = NoB \/ fail1
    THEN ReduceWeaveEnd(b, dL_dK, index, index2, od, fail2, crash, TRUE)
    ELSE ReduceWeaveEnd(b, dL_dK, index, index2, od, FALSE, crash, FALSE)

----------------------------------------------------------------------------
\* Operations

\* __init__.  Wshape and kshape are the shapes of the arrays passed for W and kappa
\* (ignored when none is passed); without W the entries are random draws, without
\* kappa every entry is 0.5 (the number 1 here).  output_dim and rank are assigned and
\* the warning is printed before the asserts on the shapes.
Construct(od, rk, Wgiven, Wshape, Wdata, kgiven, kshape, kdata) ==
    /\ ~alive
    /\ ret.outcome # "Segfault"
    /\ output_dim' = od
    /\ rank' = rk
    /\ warned' = (rk > od)
    /\ IF (Wgiven /\ Wshape # <<od, rk>>) \/ (kgiven /\ kshape # od)
       THEN /\ ret' = [NoCall EXCEPT !.op = "init", !.outcome = "AssertionError"]
            /\ UNCHANGED <<alive, W, kappa, Wgrad, kgrad>>
       ELSE /\ alive' = TRUE
            /\ W' = Wdata
            /\ kappa' = IF kgiven THEN kdata ELSE [a \in 0..(od - 1) |-> 1]
            /\ Wgrad' = [f \in 0..(od * rk - 1) |-> 0]
            /\ kgrad' = [a \in 0..(od - 1) |-> 0]
            /\ ret' = [NoCall EXCEPT !.op = "init"]
    /\ UNCHANGED <<B, working, diagView, snapW, snapKappa>>

\* The optimiser writes W.
SetW(w) ==
    /\ alive
    /\ W' = w
    /\ ret' = [NoCall EXCEPT !.op = "set_W"]
    /\ UNCHANGED <<alive, output_dim, rank, kappa, B, Wgrad, kgrad, working, diagView,
                   warned, snapW, snapKappa>>

\* The optimiser writes kappa.
SetKappa(k) ==
    /\ alive
    /\ kappa' = k
    /\ ret' = [NoCall EXCEPT !.op = "set_kappa"]
    /\ UNCHANGED <<alive, output_dim, rank, W, B, Wgrad, kgrad, working, diagView,
                   warned, snapW, snapKappa>>

\* parameters_changed leaving diag(kappa) out of B.
parameters_changed_noDiag ==
    /\ alive
    /\ B' = ComputeB(W, [a \in 0..(output_dim - 1) |-> 0], output_dim, rank)
    /\ snapW' = W
    /\ snapKappa' = kappa
    /\ ret' = [NoCall EXCEPT !.op = "parameters_changed"]
    /\ UNCHANGED <<alive, output_dim, rank, W, kappa, Wgrad, kgrad, working, diagView,
                   warned>>

parameters_changed ==
    /\ alive
    /\ B' = ComputeB(W, kappa, output_dim, rank)
    /\ snapW' = W
    /\ snapKappa' = kappa
    /\ ret' = [NoCall EXCEPT !.op = "parameters_changed"]
    /\ UNCHANGED <<alive, output_dim, rank, W, kappa, Wgrad, kgrad, working, diagView,
                   warned>>

\* K without config.set('weave', 'working', 'False') in its except branch.
K_keepsFlag(X, hasX2, X2, fail, crash, g) ==
    /\ alive
    /\ LET end == KEnd(B, X, hasX2, X2, output_dim, working, fail, crash, g)
       IN /\ ret' = Call("K", X, hasX2, X2, Empty, end)
          /\ alive' = (end.outcome # "Segfault")
    /\ UNCHANGED <<output_dim, rank, W, kappa, B, Wgrad, kgrad, working, diagView, warned,
                   snapW, snapKappa>>

K(X, hasX2, X2, fail, crash, g) ==
    /\ alive
    /\ LET end == KEnd(B, X, hasX2, X2, output_dim, working, fail, crash, g)
       IN /\ ret' = Call("K", X, hasX2, X2, Empty, end)
          /\ working' = (working /\ ~end.failed)
          /\ alive' = (end.outcome # "Segfault")
    /\ UNCHANGED <<output_dim, rank, W, kappa, B, Wgrad, kgrad, diagView, warned,
                   snapW, snapKappa>>

Kdiag(X) ==
    /\ alive
    /\ ret' = Call("Kdiag", X, FALSE, Empty, Empty,
                   IF B = NoB THEN End("AttributeError", Empty, FALSE, {})
                   ELSE IF KdiagRaises(X, output_dim)
                   THEN End("IndexError", Empty, FALSE, {})
                   ELSE End("ok", KdiagValue(B, X, output_dim), FALSE, {}))
    /\ UNCHANGED <<alive, output_dim, rank, W, kappa, B, Wgrad, kgrad, working,
                   diagView, warned, snapW, snapKappa>>

update_gradients_full(dL_dK, X, hasX2, X2, fail1, fail2, crash) ==
    /\ alive
    /\ LET end == ReduceEnd(B, dL_dK, X, Index2(X, hasX2, X2), output_dim, working,
                            fail1, fail2, crash)
       IN /\ ret' = Call("update_gradients_full", X, hasX2, X2, dL_dK, end)
          /\ working' = (working /\ ~end.failed)
          /\ alive' = (end.outcome # "Segfault")
          /\ IF end.outcome = "ok"
             THEN /\ Wgrad' = DW(W, Symmetrize(end.val, output_dim), output_dim, rank)
                  /\ kgrad' = Dkappa(end.val, output_dim, diagView)
             ELSE UNCHANGED <<Wgrad, kgrad>>
    /\ UNCHANGED <<output_dim, rank, W, kappa, B, diagView, warned, snapW, snapKappa>>

update_gradients_diag(dL_dKdiag, X) ==
    /\ alive
    /\ LET s == DiagSmall(dL_dKdiag, X, output_dim)
       IN /\ Wgrad' = DWdiag(W, s, output_dim, rank)
          /\ kgrad' = s
          /\ ret' = Call("update_gradients_diag", X, FALSE, Empty, dL_dKdiag,
                         End("ok", s, FALSE, {}))
    /\ UNCHANGED <<alive, output_dim, rank, W, kappa, B, working, diagView, warned,
                   snapW, snapKappa>>

----------------------------------------------------------------------------
\* Inputs

\* Index values a caller may pass: the channels and their two out-of-range neighbours.
AnyIndex(od) == (-1)..od

\* The channels.
Channels(od) == 0..(od - 1)

\* W matrices of a shape: entries rising by one from each start value, so that no two
\* rows and no two columns agree.
WFamily(od, rk) == {[f \in 0..(od * rk - 1) |-> v + f] : v \in WVals}

\* kappa vectors of a length, likewise.
KappaFamily(od) == {[a \in 0..(od - 1) |-> v + a] : v \in KappaVals}

DoConstruct ==
    \E od \in 1..MaxDim, rk \in 1..MaxRank, Wgiven \in BOOLEAN, kgiven \in BOOLEAN :
        \E Wshape \in IF Wgiven THEN {<<od, rk>>, <<od, rk + 1>>} ELSE {<<od, rk>>},
           kshape \in IF kgiven THEN {od, od + 1} ELSE {od},
           Wdata \in WFamily(od, rk),
           kdata \in IF kgiven THEN KappaFamily(od) ELSE {Empty} :
            Construct(od, rk, Wgiven, Wshape, Wdata, kgiven, kshape, kdata)

DoSetW == \E w \in WFamily(output_dim, rank) : SetW(w)

DoSetKappa == \E k \in KappaFamily(output_dim) : SetKappa(k)

\* The choices the environment makes in a call: whether weave.inline raises (only
\* when it runs), and what an access outside a buffer does (only when one happens).
Fails == IF working THEN BOOLEAN ELSE {FALSE}

Crashes(outside) == IF working /\ outside THEN BOOLEAN ELSE {FALSE}

Garbage(outside) == IF working /\ outside THEN GarbageVals ELSE {0}

DoK(Xs) ==
    \E X \in Xs, hasX2 \in BOOLEAN :
        \E X2 \in IF hasX2 THEN Xs ELSE {Empty} :
            \E fail \in Fails,
               crash \in Crashes(K_weaveOutOfBuffer(X, hasX2, X2, output_dim)),
               g \in Garbage(K_weaveOutOfBuffer(X, hasX2, X2, output_dim)) :
                K(X, hasX2, X2, fail, crash, g)

DoKdiag(Xs) == \E X \in Xs : Kdiag(X)

DoFull(Xs) ==
    \E X \in Xs, hasX2 \in BOOLEAN, fail1 \in Fails :
        \E X2 \in IF hasX2 THEN Xs ELSE {Empty}, fail2 \in IF fail1 THEN BOOLEAN ELSE {FALSE} :
            \E dL_dK \in Upstream(Size(X) * Size(Index2(X, hasX2, X2))),
               crash \in Crashes(ReduceOutOfBuffer(X, Index2(X, hasX2, X2), output_dim)) :
                update_gradients_full(dL_dK, X, hasX2, X2, fail1, fail2, crash)

DoDiag(Xs) ==
    \E X \in Xs :
        \E dL_dKdiag \in Upstream(Size(X)) : update_gradients_diag(dL_dKdiag, X)

----------------------------------------------------------------------------
\* The life of a kernel: construction, notifications and calls in any order.  A call
\* here passes one observation; SpecCall varies the number of observations.

Init ==
    /\ alive = FALSE
    /\ output_dim = 0
    /\ rank = 0
    /\ W = Empty
    /\ kappa = Empty
    /\ B = NoB
    /\ Wgrad = Empty
    /\ kgrad = Empty
    /\ working = TRUE
    /\ diagView \in BOOLEAN
    /\ warned = FALSE
    /\ snapW = Empty
    /\ snapKappa = Empty
    /\ ret = NoCall

Next ==
    \/ DoConstruct
    \/ parameters_changed
    \/ DoK(Single(Channels(output_dim)))
    \/ DoKdiag(Single(Channels(output_dim)))
    \/ DoFull(Single(Channels(output_dim)))
    \/ DoDiag(Single(Channels(output_dim)))

Spec == Init /\ [][Next]_vars

----------------------------------------------------------------------------
\* The optimiser at work: writes to W and kappa, notifications, kernel evaluations

NextParams ==
    \/ DoConstruct
    \/ DoSetW
    \/ DoSetKappa
    \/ parameters_changed
    \/ DoK(Single(Channels(output_dim)))
    \/ DoKdiag(Single(Channels(output_dim)))

SpecParams == Init /\ [][NextParams]_vars

----------------------------------------------------------------------------
\* One call on a kernel that was constructed and notified

InitCall ==
    /\ alive = TRUE
    /\ output_dim \in 1..MaxDim
    /\ rank \in 1..MaxRank
    /\ W \in WFamily(output_dim, rank)
    /\ kappa \in KappaFamily(output_dim)
    /\ B = ComputeB(W, kappa, output_dim, rank)
    /\ Wgrad = [f \in 0..(output_dim * rank - 1) |-> 0]
    /\ kgrad = [a \in 0..(output_dim - 1) |-> 0]
    /\ working \in BOOLEAN
    /\ diagView \in BOOLEAN
    /\ warned = (rank > output_dim)
    /\ snapW = W
    /\ snapKappa = kappa
    /\ ret = NoCall

\* Each behaviour makes one call.
NextCall ==
    \/ ret = NoCall /\ DoK(IndexVectors(Channels(output_dim), MaxN))
    \/ ret = NoCall /\ DoKdiag(IndexVectors(Channels(output_dim), MaxN))
    \/ ret = NoCall /\ DoFull(IndexVectors(Channels(output_dim), MaxN))
    \/ ret = NoCall /\ DoDiag(IndexVectors(Channels(output_dim), MaxN))

SpecCall == InitCall /\ [][NextCall]_vars

----------------------------------------------------------------------------
\* One call whose index vectors may leave the range of the channels

NextRange ==
    \/ ret = NoCall /\ DoK(IndexVectors(AnyIndex(output_dim), MaxN))
    \/ ret = NoCall /\ DoKdiag(IndexVectors(AnyIndex(output_dim), MaxN))
    \/ ret = NoCall /\ DoFull(IndexVectors(AnyIndex(output_dim), MaxN))
    \/ ret = NoCall /\ DoDiag(IndexVectors(AnyIndex(output_dim), MaxN))

SpecRange == InitCall /\ [][NextRange]_vars

----------------------------------------------------------------------------
\* Properties

Symmetric(m, od) ==
    \A a \in 0..(od - 1), b \in 0..(od - 1) : m[a * od + b] = m[b * od + a]

\* The scatter-reduce of an upstream matrix: the sum of dL_dK[i, j] over the (i, j)
\* with X[i] = a and X2[j] = b.
Reduced(dL_dK, X, X2, a, b) ==
    SumOver([c \in (DOMAIN X) \X (DOMAIN X2) |-> dL_dK[c[1] * Size(X2) + c[2]]],
            {c \in (DOMAIN X) \X (DOMAIN X2) : X[c[1]] = a /\ X2[c[2]] = b})

\* The call that just ended and its arguments.
Called(op) == ret.op = op

RetX2 == Index2(ret.X, ret.hasX2, ret.X2)

RetValid ==
    /\ ValidIndex(ret.X, output_dim)
    /\ ret.hasX2 => ValidIndex(ret.X2, output_dim)

\* What update_gradients_full stores from a reduced matrix.
Stored(small) ==
    /\ Wgrad = DW(W, Symmetrize(small, output_dim), output_dim, rank)
    /\ kgrad = Dkappa(small, output_dim, diagView)

\* C1: a K or update_gradients_full call in which the accelerated path failed (the
\* flag being enabled on entry) ends normally with the result of the baseline
\* implementation: K returns the gather, update_gradients_full stores the gradients
\* the baseline reduction gives.
C1_FailureFallsBack ==
    (ret.failed /\ B # NoB /\ RetValid) =>
        /\ ret.outcome = "ok"
        /\ Called("K") => ret.val = K_numpy(B, ret.X, ret.hasX2, ret.X2, output_dim)
        /\ Called("update_gradients_full") =>
               Stored(GradientReduceNumpy(ret.dL, ret.X, RetX2, output_dim))

\* C2: the acceleration flag starts enabled, a call in which the accelerated path
\* fails disables it, nothing else changes it, it never becomes enabled again, and a
\* K call made while it is disabled runs the baseline gather only.
C2_FlagOneWay ==
    /\ working = TRUE
    /\ [][/\ ~working => ~working'
          /\ ret'.failed => (working /\ ~working')
          /\ (working /\ ~working') =>
                 (ret'.failed /\ ret'.op \in {"K", "update_gradients_full"})
          /\ (~working /\ ret'.op = "K") => ret'.used = {"numpy"}]_vars

\* A K call made after the flag was disabled.
C2_Witness ==
    /\ ~working
    /\ Called("K")
    /\ ~ret.failed
    /\ ret.outcome = "ok"
    /\ ret.used = {"numpy"}

\* C3: B is W.W^T + diag(kappa) of the W and kappa of the most recent
\* parameters_changed call, hence symmetric; only parameters_changed changes B, so
\* after a write to W or kappa the evaluations still return the values of the old
\* parameters.
C3_CacheOfLastNotification ==
    /\ [](B # NoB =>
            /\ B = ComputeB(snapW, snapKappa, output_dim, rank)
            /\ Symmetric(B, output_dim)
            /\ \A a \in 0..(output_dim - 1) :
                   B[a * output_dim + a] =
                       SumOver([c \in 0..(rank - 1) |-> snapW[a * rank + c] * snapW[a * rank + c]],
                               0..(rank - 1)) + snapKappa[a]
            /\ (Called("Kdiag") /\ ret.outcome = "ok") =>
                   \A i \in DOMAIN ret.X :
                       ret.val[i] = ComputeB(snapW, snapKappa, output_dim, rank)
                                        [ret.X[i] * output_dim + ret.X[i]]
            /\ (Called("K") /\ ret.outcome = "ok") =>
                   \A i \in DOMAIN ret.X, j \in DOMAIN RetX2 :
                       ret.val[i * Size(RetX2) + j] =
                           ComputeB(snapW, snapKappa, output_dim, rank)
                               [ret.X[i] * output_dim + RetX2[j]])
    /\ [][B' # B => ret'.op = "parameters_changed"]_vars

\* A kernel evaluation on a cache that a write to W or kappa has left behind.
C3_Witness ==
    /\ B # NoB
    /\ Called("K")
    /\ ret.outcome = "ok"
    /\ B # ComputeB(W, kappa, output_dim, rank)
    /\ <<W, kappa>> # <<snapW, snapKappa>>

\* C4: K(X, X2) is the n1 x n2 matrix with entry [i, j] = B[X[i], X2[j]], and K(X)
\* is what K(X, X) returns, by the accelerated loops and by the baseline gather alike,
\* also after an accelerated failure.
C4_KIsGather ==
    (Called("K") /\ RetValid) =>
        /\ ret.outcome = "ok"
        /\ DOMAIN ret.val = 0..(Size(ret.X) * Size(RetX2) - 1)
        /\ \A i \in DOMAIN ret.X, j \in DOMAIN RetX2 :
               ret.val[i * Size(RetX2) + j] = B[ret.X[i] * output_dim + RetX2[j]]
        /\ ~ret.hasX2 =>
               /\ ret.val = K_numpy(B, ret.X, TRUE, ret.X, output_dim)
               /\ ret.val = K_weave(B, ret.X, TRUE, ret.X, output_dim, 0)

\* K(X) of two different channels, computed by the loop that mirrors the lower triangle.
C4_Witness ==
    /\ Called("K")
    /\ ~ret.hasX2
    /\ ret.used = {"weave"}
    /\ Size(ret.X) = 2
    /\ ret.X[0] # ret.X[1]
    /\ ret.val[1] # ret.val[0]

\* C5: after update_gradients_full, kappa.gradient[a] = S[a, a] and W.gradient[r, :]
\* is the sum over c of (S + S^T)[r, c] * W[c, :], S being the scatter-reduce of
\* dL_dK; the kappa gradient is not doubled by the symmetrization.
C5_FullGradients ==
    (Called("update_gradients_full") /\ ret.outcome = "ok" /\ RetValid) =>
        /\ \A a \in 0..(output_dim - 1) : kgrad[a] = Reduced(ret.dL, ret.X, RetX2, a, a)
        /\ \A r \in 0..(output_dim - 1), k \in 0..(rank - 1) :
               Wgrad[r * rank + k] =
                   SumOver([c \in 0..(output_dim - 1) |->
                               (Reduced(ret.dL, ret.X, RetX2, r, c)
                                + Reduced(ret.dL, ret.X, RetX2, c, r)) * W[c * rank + k]],
                           0..(output_dim - 1))

\* C6: after update_gradients_diag, kappa.gradient[a] = s[a] and W.gradient[a, k] =
\* 2 * W[a, k] * s[a], s[a] being the sum of dL_dKdiag[i] over the i with X[i] = a.
C6_DiagGradients ==
    (Called("update_gradients_diag") /\ RetValid) =>
        /\ ret.outcome = "ok"
        /\ DOMAIN kgrad = 0..(output_dim - 1)
        /\ DOMAIN Wgrad = 0..(output_dim * rank - 1)
        /\ \A a \in 0..(output_dim - 1) :
               LET sa == SumOver(ret.dL, {i \in DOMAIN ret.X : ret.X[i] = a})
               IN /\ kgrad[a] = sa
                  /\ ({i \in DOMAIN ret.X : ret.X[i] = a} = {}) => kgrad[a] = 0
                  /\ \A k \in 0..(rank - 1) : Wgrad[a * rank + k] = 2 * W[a * rank + k] * sa

\* A diagonal gradient with one channel observed twice and another not at all.
C6_Witness ==
    /\ Called("update_gradients_diag")
    /\ output_dim = 2
    /\ Size(ret.X) = 2
    /\ ret.X[0] = ret.X[1]
    /\ \E a \in 0..(output_dim - 1) : kgrad[a] = 0
    /\ \E f \in DOMAIN Wgrad : Wgrad[f] # 0

\* C7: Kdiag(X) has the length of X and Kdiag(X)[i] = K(X, X)[i, i], whichever way K
\* computes it.
C7_KdiagIsDiagonalOfK ==
    (Called("Kdiag") /\ RetValid) =>
        /\ ret.outcome = "ok"
        /\ DOMAIN ret.val = DOMAIN ret.X
        /\ \A i \in DOMAIN ret.X :
               LET d == i * Size(ret.X) + i
               IN /\ ret.val[i] = K_numpy(B, ret.X, TRUE, ret.X, output_dim)[d]
                  /\ ret.val[i] = K_numpy(B, ret.X, FALSE, Empty, output_dim)[d]
                  /\ ret.val[i] = K_weave(B, ret.X, TRUE, ret.X, output_dim, 0)[d]
                  /\ ret.val[i] = K_weave(B, ret.X, FALSE, Empty, output_dim, 0)[d]

\* Kdiag of two different channels.
C7_Witness ==
    /\ Called("Kdiag")
    /\ ret.outcome = "ok"
    /\ Size(ret.X) = 2
    /\ ret.X[0] # ret.X[1]
    /\ ret.val[0] # ret.val[1]

\* C8: a call whose X or X2 holds an index outside [0, output_dim) ends in an
\* index error.
C8_OutOfRangeRaises ==
    (ret.op \in {"K", "Kdiag", "update_gradients_full", "update_gradients_diag"}
     /\ ~RetValid) => ret.outcome = "IndexError"

\* C9: a construction with rank >= output_dim that raises nothing has printed the
\* warning and has made W of shape output_dim x rank.
C9_WarnsFromEqualRank ==
    (Called("init") /\ ret.outcome = "ok" /\ rank >= output_dim) =>
        /\ warned
        /\ alive
        /\ DOMAIN W = 0..(output_dim * rank - 1)

\* C10: the accelerated and the baseline gradient reduction return the same matrix,
\* entry by entry, so an update_gradients_full call that stores gradients stores the
\* same ones by either.
C10_ReductionsAgree ==
    (Called("update_gradients_full") /\ ret.outcome = "ok" /\ RetValid) =>
        /\ GradientReduceWeave(ret.dL, ret.X, RetX2, output_dim)
               = GradientReduceNumpy(ret.dL, ret.X, RetX2, output_dim)
        /\ ret.val = GradientReduceNumpy(ret.dL, ret.X, RetX2, output_dim)
        /\ Stored(GradientReduceWeave(ret.dL, ret.X, RetX2, output_dim))
        /\ Stored(GradientReduceNumpy(ret.dL, ret.X, RetX2, output_dim))

\* An accelerated reduction of a 2 x 2 upstream matrix whose result is not symmetric.
C10_Witness ==
    /\ Called("update_gradients_full")
    /\ ret.outcome = "ok"
    /\ ret.used = {"weave"}
    /\ ret.hasX2
    /\ Size(ret.X) = 2
    /\ Size(ret.X2) = 2
    /\ output_dim = 2
    /\ ret.val[1] # ret.val[2]

====
